---- MODULE Spec2Model ----
(***************************************************************************)
(* Notification engine of the multi-calendar Telegram bot.                 *)
(*                                                                         *)
(* The process is one asyncio event loop.  A coroutine runs without        *)
(* interruption between two awaits, so every action below is one such      *)
(* synchronous stretch of a handler: from its start (or from the point it  *)
(* resumes after an await on the delivery sink) up to its next await or    *)
(* its return.                                                             *)
(*                                                                         *)
(* The store is seen through SQLAlchemy sessions: a session reads the      *)
(* committed row the first time it asks for a key and afterwards answers   *)
(* from its identity map; what it changed becomes visible to the other     *)
(* sessions when it commits, column by column (an UPDATE carries only the  *)
(* columns whose value differs from the loaded one); close() without       *)
(* commit() discards everything.                                           *)
(***************************************************************************)
EXTENDS Integers, Sequences, FiniteSets, TLC

\* ---------------------------------------------------------------- bounds
MaxMsgs == 2
MaxInflight == 1

\* ------------------------------------------------------------- constants
Fingerprints == {"f1", "f2"}
\* Start instant of each occurrence (minutes on the clock of the model): f1
\* lies one reminder point ahead, f2 starts with the first poll.
StartOf == [f \in Fingerprints |-> IF f = "f1" THEN 5 ELSE 0]
NOTIFY_INTERVALS == {60, 30, 15, 10, 5, 0}

\* The minutes at which the clock of the model is read: the first poll, the
\* poll after it and the start of f1.  At the minutes 2..4 every comparison
\* the code makes (start <= now, now >= next_notify_at, m <= minutes_left)
\* has the value it has at minute 1.
Instants == {0, 1, 5}
Null == -1

EventState == {"NEW", "ANNOUNCED", "WAITING", "CONFIRMED", "STARTED"}
EventStatus == {"ANNOUNCED", "SOON", "STARTED", "CONFIRMED"}

\* A row of seen_events (start is fixed per fingerprint, see StartOf).
SeenEvent(st, mid, nxt) == [state |-> st, message_id |-> mid, next_notify_at |-> nxt]
Absent == SeenEvent("absent", 0, Null)
Unloaded == SeenEvent("unloaded", 0, Null)

\* Inline keyboards of a message.
NoKeyboard == [kind |-> "none", pts |-> {}]
DefaultKeyboard == [kind |-> "default", pts |-> {}]
MenuKeyboard(pts) == [kind |-> "menu", pts |-> pts]

EventLists == {<<>>} \cup {<<f>> : f \in Fingerprints}
                 \cup {<<f, g>> : f \in Fingerprints, g \in Fingerprints}

VARIABLES
  now,        \* wall clock, minutes
  ticked,     \* the cron trigger of the current minute has fired (or was skipped)
  db,         \* committed rows of seen_events
  chat,       \* messages delivered to the chat, index = message_id
  tick,       \* the running check_and_notify, if any
  timers,     \* armed _auto_start_event jobs per fingerprint
  auto,       \* running _auto_start_event per fingerprint
  restores,   \* armed _restore_original_buttons jobs
  inflight,   \* callback queries pressed and not yet handled
  ack,        \* the running confirm_callback, if any
  chosen,     \* history: choose-delay presses per fingerprint
  started     \* history: fingerprints whose stored state has been STARTED

vars == <<now, ticked, db, chat, tick, timers, auto, restores, inflight,
          ack, chosen, started>>

Max(a, b) == IF a > b THEN a ELSE b

\* ------------------------------------------------------------- messages
\* EventStatus and with_buttons of the three sends of check_and_notify.
SendStatus(kind) ==
  CASE kind = "started" -> "STARTED"
    [] kind = "announce" -> "ANNOUNCED"
    [] OTHER -> "SOON"

SendButtons(kind) == kind # "started"

\* send_event_notification: the message the sink delivers.
Message(f, kind) ==
  [f |-> f, sent |-> SendStatus(kind), btn |-> SendButtons(kind),
   text |-> SendStatus(kind),
   ctl |-> IF SendButtons(kind) THEN DefaultKeyboard ELSE NoKeyboard]

\* ------------------------------------------------------ check_and_notify
IdleTick ==
  [pc |-> "idle", now |-> 0, evs |-> <<>>, i |-> 0,
   sess |-> [f \in Fingerprints |-> Unloaded],
   base |-> [f \in Fingerprints |-> Unloaded],
   new |-> {}, pend |-> "none", chat0 |-> 0]

\* session.query(SeenEvent).get(ev_hash): the identity map first, else the
\* committed row.
Get(t, f) ==
  IF t.sess[f].state # "unloaded" \/ db[f].state = "absent"
  THEN t
  ELSE [t EXCEPT !.sess[f] = db[f], !.base[f] = db[f]]

\* A new SeenEvent added for the event whatever the lookup returned.
TrackAlways(t, f) ==
  [t EXCEPT !.sess[f] = SeenEvent("NEW", 0, Null), !.base[f] = Absent,
            !.new = @ \cup {f}]

\* if not record: record = SeenEvent(state=NEW); session.add(record)
Track(t, f) ==
  IF t.sess[f].state # "unloaded"
  THEN t
  ELSE [t EXCEPT !.sess[f] = SeenEvent("NEW", 0, Null), !.base[f] = Absent,
                 !.new = @ \cup {f}]

\* The if-chain without its first test.
BranchNoConfirmedSkip(rec, f, nw) ==
  IF StartOf[f] <= nw /\ rec.state # "STARTED" THEN "started"
  ELSE IF rec.state = "NEW" THEN "announce"
  ELSE IF rec.state = "WAITING" /\ rec.next_notify_at # Null
          /\ nw >= rec.next_notify_at THEN "followup"
  ELSE "none"

\* The if-chain with the test of the due reminder ahead of the test of the
\* start.
BranchFollowUpFirst(rec, f, nw) ==
  IF rec.state = "CONFIRMED" THEN "skip"
  ELSE IF rec.state = "WAITING" /\ rec.next_notify_at # Null
          /\ nw >= rec.next_notify_at THEN "followup"
  ELSE IF StartOf[f] <= nw /\ rec.state # "STARTED" THEN "started"
  ELSE IF rec.state = "NEW" THEN "announce"
  ELSE "none"

\* The if-chain of one loop iteration: which send, if any, the record gets.
Branch(rec, f, nw) ==
  IF rec.state = "CONFIRMED" THEN "skip"
  ELSE IF StartOf[f] <= nw /\ rec.state # "STARTED" THEN "started"
  ELSE IF rec.state = "NEW" THEN "announce"
  ELSE IF rec.state = "WAITING" /\ rec.next_notify_at # Null
          /\ nw >= rec.next_notify_at THEN "followup"
  ELSE "none"

\* The assignment to record.state that precedes the send.
StateBeforeSend(kind, st) ==
  CASE kind = "started" -> "STARTED"
    [] kind = "announce" -> "ANNOUNCED"
    [] OTHER -> st

\* What follows a successful send on the record: message_id written back,
\* and next_notify_at cleared after a follow-up.
AfterSend(rec, kind, mid) ==
  [rec EXCEPT !.message_id = mid,
              !.next_notify_at = IF kind = "followup" THEN Null ELSE @]

\* The for loop from event i up to the next await (pc = "send") or to the
\* end of the list (pc = "commit").
RECURSIVE RunLoop(_, _)
RunLoop(t, i) ==
  IF i > Len(t.evs)
  THEN [t EXCEPT !.pc = "commit", !.i = i, !.pend = "none"]
  ELSE LET f == t.evs[i]
           t1 == Track(Get(t, f), f)
           b == Branch(t1.sess[f], f, t1.now)
       IN IF b \in {"skip", "none"}
          THEN RunLoop(t1, i + 1)
          ELSE [t1 EXCEPT !.pc = "send", !.i = i, !.pend = b,
                          !.sess[f].state = StateBeforeSend(b, @)]

\* One column of a row after the session's UPDATE.
Column(loaded, mine, stored) == IF mine # loaded THEN mine ELSE stored

\* session.commit() of the tick: INSERT the added rows, UPDATE the changed
\* columns of the loaded ones.
Commit(t) ==
  [f \in Fingerprints |->
     IF t.sess[f].state = "unloaded" THEN db[f]
     ELSE IF f \in t.new THEN t.sess[f]
     ELSE IF db[f].state = "absent" THEN db[f]
     ELSE SeenEvent(
            Column(t.base[f].state, t.sess[f].state, db[f].state),
            Column(t.base[f].message_id, t.sess[f].message_id, db[f].message_id),
            Column(t.base[f].next_notify_at, t.sess[f].next_notify_at,
                   db[f].next_notify_at))]

\* History: the fingerprints stored as STARTED now or earlier.
Entered(dbNew) == started \cup {f \in Fingerprints : dbNew[f].state = "STARTED"}

\* The session committed after every send, not only at the end of the loop.
SettleCommitsEach(t) ==
  /\ db' = Commit(t)
  /\ started' = Entered(Commit(t))
  /\ tick' = IF t.pc = "commit" THEN IdleTick ELSE t

\* The tick either waits for its next send or commits and ends.
Settle(t) ==
  IF t.pc = "commit"
  THEN /\ db' = Commit(t)
       /\ started' = Entered(Commit(t))
       /\ tick' = IdleTick
  ELSE /\ tick' = t
       /\ UNCHANGED <<db, started>>

\* The cron job fires: fetch the live events and run to the first send.
TickBegin(evs) ==
  /\ tick.pc = "idle"
  /\ ~ticked
  /\ ticked' = TRUE
  /\ Settle(RunLoop([IdleTick EXCEPT !.now = now, !.evs = evs,
                                     !.chat0 = Len(chat)], 1))
  /\ UNCHANGED <<now, chat, timers, auto, restores, inflight, ack, chosen>>

\* bot.send_message returned: write the handle back, arm the auto-start job
\* after an announcement, and run on.
TickSendOk ==
  /\ tick.pc = "send"
  /\ Len(chat) < MaxMsgs
  /\ LET f == tick.evs[tick.i]
         mid == Len(chat) + 1
         t1 == [tick EXCEPT !.sess[f] = AfterSend(@, tick.pend, mid)]
     IN /\ chat' = Append(chat, Message(f, tick.pend))
        /\ timers' = IF tick.pend = "announce"
                     THEN [timers EXCEPT ![f] = @ + 1] ELSE timers
        /\ Settle(RunLoop(t1, tick.i + 1))
  /\ UNCHANGED <<now, ticked, auto, restores, inflight, ack, chosen>>

\* bot.send_message raised and what the session holds is committed on the
\* way out.
TickSendFailCommits ==
  /\ tick.pc = "send"
  /\ db' = Commit(tick)
  /\ started' = Entered(Commit(tick))
  /\ tick' = IdleTick
  /\ UNCHANGED <<now, ticked, chat, timers, auto, restores, inflight,
                 ack, chosen>>

\* bot.send_message raised: the exception leaves the loop, the session is
\* closed without commit.
TickSendFail ==
  /\ tick.pc = "send"
  /\ tick' = IdleTick
  /\ UNCHANGED <<now, ticked, db, chat, timers, auto, restores, inflight,
                 ack, chosen, started>>

\* The clock reaches the next instant and the trigger of the new minute is
\* left to fire whether or not the previous run is over.
AdvanceNoSkip ==
  /\ ticked
  /\ \E t \in Instants :
        /\ t > now
        /\ \A u \in Instants : u > now => t <= u
        /\ now' = t
  /\ ticked' = FALSE
  /\ UNCHANGED <<db, chat, tick, timers, auto, restores, inflight, ack,
                 chosen, started>>

\* The clock reaches the next instant.  The cron trigger of the new minute
\* is skipped while the previous run is still going.
Advance ==
  /\ ticked
  /\ \E t \in Instants :
        /\ t > now
        /\ \A u \in Instants : u > now => t <= u
        /\ now' = t
  /\ ticked' = (tick.pc # "idle")
  /\ UNCHANGED <<db, chat, tick, timers, auto, restores, inflight, ack,
                 chosen, started>>

\* -------------------------------------------------- _auto_start_event
IdleJob == [pc |-> "idle", rec |-> Absent]
\* What the network does to a call of the delivery sink.
NetOutcomes == {"ok", "err"}

\* The guard without the STARTED state.
AutoStartSkipsConfirmedOnly(rec) == rec.state \in {"absent", "CONFIRMED"}

\* The guard of the job: nothing to do without a record, or on a record
\* that is CONFIRMED or STARTED.
AutoStartSkips(rec) == rec.state \in {"absent", "CONFIRMED", "STARTED"}

\* The date job of fingerprint f fires: read the record, check the state and
\* go on to edit the message.
TimerStart(f) ==
  /\ timers[f] > 0
  /\ now >= StartOf[f]
  /\ auto[f].pc = "idle"
  /\ timers' = [timers EXCEPT ![f] = @ - 1]
  /\ auto' = IF AutoStartSkips(db[f]) THEN auto
             ELSE [auto EXCEPT ![f] = [pc |-> "edit", rec |-> db[f]]]
  /\ UNCHANGED <<now, ticked, db, chat, tick, restores, inflight, ack,
                 chosen, started>>

\* The message after edit_message_text(text) and
\* edit_message_reply_markup(None); r tells which call, if any, raised.
EditBoth(msg, text, r) ==
  IF r \in {"err", "err_text"} THEN msg
  ELSE IF r = "err_markup" THEN [msg EXCEPT !.text = text]
  ELSE [msg EXCEPT !.text = text, !.ctl = NoKeyboard]

\* The row after a session that loaded it with state `loaded` commits
\* record.state = st.
CommitState(row, loaded, st) ==
  IF row.state = "absent" \/ loaded = st THEN row ELSE [row EXCEPT !.state = st]

\* Both edits are over ("Message is not modified" is swallowed, anything
\* else is raised); then record.state = STARTED and commit.
TimerFinish(f, r) ==
  /\ auto[f].pc = "edit"
  /\ LET mid == auto[f].rec.message_id
         raised == r # "ok" \/ mid \notin 1..Len(chat)
         dbNew == IF raised THEN db
                  ELSE [db EXCEPT ![f] = CommitState(@, auto[f].rec.state, "STARTED")]
     IN /\ chat' = IF mid \in 1..Len(chat)
                   THEN [chat EXCEPT ![mid] = EditBoth(@, "SOON", r)] ELSE chat
        /\ db' = dbNew
        /\ started' = Entered(dbNew)
  /\ auto' = [auto EXCEPT ![f] = IdleJob]
  /\ UNCHANGED <<now, ticked, tick, timers, restores, inflight, ack, chosen>>

\* ------------------------------------------------------------ callbacks
Callback(kind, f, m, mid) == [kind |-> kind, f |-> f, m |-> m, mid |-> mid, seen |-> FALSE]

\* The button of callback (kind, m) is on the keyboard.
Shows(ctl, kind, m) ==
  IF kind = "notify_set" THEN ctl.kind = "menu" /\ m \in ctl.pts
  ELSE ctl.kind = "default" /\ m = 0

\* The user presses a button that is on message mid.
Press(kind, f, m, mid) ==
  /\ mid \in 1..Len(chat)
  /\ chat[mid].f = f
  /\ Shows(chat[mid].ctl, kind, m)
  /\ Cardinality(inflight) < MaxInflight
  /\ Callback(kind, f, m, mid) \notin inflight
  /\ inflight' = inflight \cup {Callback(kind, f, m, mid)}
  /\ chosen' = IF kind = "notify_set"
               THEN [chosen EXCEPT ![f] = IF @ < MaxMsgs THEN @ + 1 ELSE @] ELSE chosen
  /\ UNCHANGED <<now, ticked, db, chat, tick, timers, auto, restores, ack,
                 started>>

\* The callback query leaves the queue; a second tap on the same button
\* leaves a copy of it behind.
Taken(cb, again) ==
  IF again THEN (inflight \ {cb}) \cup {[cb EXCEPT !.seen = TRUE]}
  ELSE inflight \ {cb}

\* minutes_left and valid_intervals of notify_callback.
MinutesLeft(f) == Max(StartOf[f] - now, 0)
ValidIntervals(f) == {m \in NOTIFY_INTERVALS : m = 0 \/ m <= MinutesLeft(f)}

\* notify_callback: show the menu of reminder points and arm the restore job.
NotifyCallback(cb, again, r) ==
  /\ cb \in inflight
  /\ cb.kind = "notify"
  /\ ack.pc = "idle"
  /\ inflight' = Taken(cb, again)
  /\ LET menu == MenuKeyboard(ValidIntervals(cb.f))
         shown == /\ db[cb.f].state # "absent"
                  /\ ValidIntervals(cb.f) # {}
                  /\ r = "ok"
                  /\ chat[cb.mid].ctl # menu
     IN /\ chat' = IF shown THEN [chat EXCEPT ![cb.mid].ctl = menu] ELSE chat
        /\ restores' = IF shown
                       THEN restores \cup {[f |-> cb.f, mid |-> cb.mid]}
                       ELSE restores
  /\ UNCHANGED <<now, ticked, db, tick, timers, auto, ack, chosen, started>>

\* The offset taken on the wrong side of the start.
SnoozeAfterStart(f, m) == StartOf[f] + m

\* record.next_notify_at = record.start - timedelta(minutes=minutes)
SnoozeAt(f, m) == StartOf[f] - m

\* The row notify_set_callback commits.
Snoozed(row, f, m) ==
  IF row.state = "absent" THEN row
  ELSE [row EXCEPT !.next_notify_at = SnoozeAt(f, m), !.state = "WAITING"]

\* notify_set_callback: commit the choice, then strip the keyboard.
NotifySetCallback(cb, again, r) ==
  /\ cb \in inflight
  /\ cb.kind = "notify_set"
  /\ ack.pc = "idle"
  /\ inflight' = Taken(cb, again)
  /\ db' = [db EXCEPT ![cb.f] = Snoozed(@, cb.f, cb.m)]
  /\ chat' = IF db[cb.f].state # "absent" /\ r = "ok"
             THEN [chat EXCEPT ![cb.mid].ctl = NoKeyboard] ELSE chat
  /\ UNCHANGED <<now, ticked, tick, timers, auto, restores, ack, chosen,
                 started>>

IdleAck == [pc |-> "idle", f |-> "f1", mid |-> 0, rec |-> Absent]

\* confirm_callback going on to its edits without looking at what the
\* lookup returned.
ConfirmStartNoLookup(cb, again) ==
  /\ cb \in inflight
  /\ cb.kind = "confirm"
  /\ ack.pc = "idle"
  /\ inflight' = Taken(cb, again)
  /\ ack' = [pc |-> "edit", f |-> cb.f, mid |-> cb.mid, rec |-> db[cb.f]]
  /\ UNCHANGED <<now, ticked, db, chat, tick, timers, auto, restores,
                 chosen, started>>

\* confirm_callback up to its first edit: read the record, set CONFIRMED on
\* the loaded object.
ConfirmStart(cb, again) ==
  /\ cb \in inflight
  /\ cb.kind = "confirm"
  /\ ack.pc = "idle"
  /\ inflight' = Taken(cb, again)
  /\ ack' = IF db[cb.f].state = "absent" THEN ack
            ELSE [pc |-> "edit", f |-> cb.f, mid |-> cb.mid, rec |-> db[cb.f]]
  /\ UNCHANGED <<now, ticked, db, chat, tick, timers, auto, restores,
                 chosen, started>>

\* What the sink answers to the two edits of confirm_callback, given the
\* outcome r of the network: an edit that changes nothing is refused.
ConfirmOutcome(msg, r) ==
  IF r = "err" \/ msg.text = "CONFIRMED" THEN "err_text"
  ELSE IF msg.ctl = NoKeyboard THEN "err_markup"
  ELSE "ok"

\* confirm_callback with the commit ahead of the edits.
ConfirmFinishCommitsFirst(r) ==
  /\ ack.pc = "edit"
  /\ LET o == ConfirmOutcome(chat[ack.mid], r)
     IN /\ chat' = [chat EXCEPT ![ack.mid] = EditBoth(@, "CONFIRMED", o)]
        /\ db' = [db EXCEPT ![ack.f] = CommitState(@, ack.rec.state, "CONFIRMED")]
  /\ ack' = IdleAck
  /\ UNCHANGED <<now, ticked, tick, timers, auto, restores, inflight,
                 chosen, started>>

\* confirm_callback after its edits: commit only when neither raised.
ConfirmFinish(r) ==
  /\ ack.pc = "edit"
  /\ LET o == ConfirmOutcome(chat[ack.mid], r)
     IN /\ chat' = [chat EXCEPT ![ack.mid] = EditBoth(@, "CONFIRMED", o)]
        /\ db' = IF o = "ok"
                 THEN [db EXCEPT ![ack.f] = CommitState(@, ack.rec.state, "CONFIRMED")]
                 ELSE db
  /\ ack' = IdleAck
  /\ UNCHANGED <<now, ticked, tick, timers, auto, restores, inflight,
                 chosen, started>>

\* --------------------------------------------- _restore_original_buttons
\* The keyboard of the message after the job: it returns early without a
\* record or off ANNOUNCED, and otherwise reaches self.bot_app, an attribute
\* TelegramBot does not have, before any edit is sent.
Restored(row, ctl) == ctl

RestoreFire(t) ==
  /\ t \in restores
  /\ restores' = restores \ {t}
  /\ chat' = [chat EXCEPT ![t.mid].ctl = Restored(db[t.f], @)]
  /\ UNCHANGED <<now, ticked, db, tick, timers, auto, inflight, ack,
                 chosen, started>>

\* ---------------------------------------------------------- specification
Init ==
  /\ now = 0
  /\ ticked = FALSE
  /\ db = [f \in Fingerprints |-> Absent]
  /\ chat = <<>>
  /\ tick = IdleTick
  /\ timers = [f \in Fingerprints |-> 0]
  /\ auto = [f \in Fingerprints |-> IdleJob]
  /\ restores = {}
  /\ inflight = {}
  /\ ack = IdleAck
  /\ chosen = [f \in Fingerprints |-> 0]
  /\ started = {}

Next ==
  \/ \E evs \in EventLists : TickBegin(evs)
  \/ TickSendOk
  \/ TickSendFail
  \/ Advance
  \/ \E f \in Fingerprints : TimerStart(f)
  \/ \E f \in Fingerprints, r \in NetOutcomes : TimerFinish(f, r)
  \/ \E kind \in {"notify", "confirm", "notify_set"}, f \in Fingerprints,
        m \in NOTIFY_INTERVALS, mid \in 1..MaxMsgs : Press(kind, f, m, mid)
  \/ \E cb \in inflight, again \in BOOLEAN, r \in NetOutcomes :
        NotifyCallback(cb, again, r)
  \/ \E cb \in inflight, again \in BOOLEAN, r \in NetOutcomes :
        NotifySetCallback(cb, again, r)
  \/ \E cb \in inflight, again \in BOOLEAN : ConfirmStart(cb, again)
  \/ \E r \in NetOutcomes : ConfirmFinish(r)
  \/ \E t \in restores : RestoreFire(t)

Spec == Init /\ [][Next]_vars

\* ------------------------------------------- fetch failures, late clock
\* The notice check_and_notify sends when the fetch raises NEED_REAUTH.
Notice ==
  [f |-> "none", sent |-> "NOTICE", btn |-> FALSE, text |-> "NOTICE",
   ctl |-> NoKeyboard]

\* list_all_events raised RuntimeError("NEED_REAUTH"): the tick goes on to
\* send the notice and nothing else.
TickReauth ==
  /\ tick.pc = "idle"
  /\ ~ticked
  /\ ticked' = TRUE
  /\ tick' = [IdleTick EXCEPT !.pc = "notice", !.now = now, !.chat0 = Len(chat)]
  /\ UNCHANGED <<now, db, chat, timers, auto, restores, inflight, ack,
                 chosen, started>>

\* The send of the notice is over (delivered or raised): return, and
\* finally: session.close().
NoticeDone(r) ==
  /\ tick.pc = "notice"
  /\ r = "ok" => Len(chat) < MaxMsgs
  /\ chat' = IF r = "ok" THEN Append(chat, Notice) ELSE chat
  /\ tick' = IdleTick
  /\ UNCHANGED <<now, ticked, db, timers, auto, restores, inflight, ack,
                 chosen, started>>

\* Any RuntimeError from the fetch sends the notice.
TickFetchRaisesNotifies ==
  /\ tick.pc = "idle"
  /\ ~ticked
  /\ ticked' = TRUE
  /\ tick' = [IdleTick EXCEPT !.pc = "notice", !.now = now, !.chat0 = Len(chat)]
  /\ UNCHANGED <<now, db, chat, timers, auto, restores, inflight, ack,
                 chosen, started>>

\* list_all_events raised something else: it is raised again and the run of
\* the job ends there.
TickFetchRaises ==
  /\ tick.pc = "idle"
  /\ ~ticked
  /\ ticked' = TRUE
  /\ UNCHANGED <<now, db, chat, tick, timers, auto, restores, inflight, ack,
                 chosen, started>>

\* The minute after the last instant of Instants: the start of f1 is past.
AdvanceLate ==
  /\ ticked
  /\ now \in Instants
  /\ \A u \in Instants : u <= now
  /\ now' = now + 1
  /\ ticked' = (tick.pc # "idle")
  /\ UNCHANGED <<db, chat, tick, timers, auto, restores, inflight, ack,
                 chosen, started>>

\* The calendars hold the one event f1 (possibly in two of them).
OneEventLists == {<<>>, <<"f1">>, <<"f1", "f1">>}

\* The program with one event in the calendars, followed to the minute after
\* its start, the fetch failing at times and every callback delivered once.
NextOneEvent ==
  \/ \E evs \in OneEventLists : TickBegin(evs)
  \/ TickSendOk
  \/ TickSendFail
  \/ TickReauth
  \/ \E r \in NetOutcomes : NoticeDone(r)
  \/ TickFetchRaises
  \/ Advance
  \/ AdvanceLate
  \/ TimerStart("f1")
  \/ \E r \in NetOutcomes : TimerFinish("f1", r)
  \/ \E kind \in {"notify", "confirm", "notify_set"}, m \in NOTIFY_INTERVALS,
        mid \in 1..MaxMsgs : Press(kind, "f1", m, mid)
  \/ \E cb \in inflight, r \in NetOutcomes : NotifyCallback(cb, FALSE, r)
  \/ \E cb \in inflight, r \in NetOutcomes : NotifySetCallback(cb, FALSE, r)
  \/ \E cb \in inflight : ConfirmStart(cb, FALSE)
  \/ \E r \in NetOutcomes : ConfirmFinish(r)
  \/ \E t \in restores : RestoreFire(t)

SpecOneEvent == Init /\ [][NextOneEvent]_vars

\* ------------------------------------------------------------- retention
\* timedelta(weeks=1), in minutes.
Week == 10080

\* A week goes by, up to the third week after the start of f1.
AdvanceWeek ==
  /\ ticked
  /\ now \notin Instants
  /\ now < 2 * Week
  /\ now' = now + Week
  /\ ticked' = (tick.pc # "idle")
  /\ UNCHANGED <<db, chat, tick, timers, auto, restores, inflight, ack,
                 chosen, started>>

\* The program as main starts it, followed for weeks: the cron job, the date
\* jobs and the handlers; no task runs weekly_cleanup.
NextLongRun ==
  \/ NextOneEvent
  \/ AdvanceWeek

SpecLongRun == Init /\ [][NextLongRun]_vars

\* SeenEvent.start < threshold, with threshold = now - timedelta(weeks=1).
Old(f, nw) == StartOf[f] < nw - Week

\* clean_old_events: delete the rows it selects and commit.
CleanOldEvents ==
  /\ db' = [f \in Fingerprints |-> IF Old(f, now) THEN Absent ELSE db[f]]
  /\ UNCHANGED <<now, ticked, chat, tick, timers, auto, restores, inflight,
                 ack, chosen, started>>

\* The program with weekly_cleanup running as a task of the same loop, which
\* database.py defines and main does not create.  The task may have been
\* started at any minute, so a pass of it may come at any minute.
NextWithCleanup ==
  \/ NextLongRun
  \/ CleanOldEvents

SpecWithCleanup == Init /\ [][NextWithCleanup]_vars

\* ============================================================ properties
\* Sends of status `status` delivered for fingerprint f so far.
Count(f, status) ==
  Cardinality({i \in 1..Len(chat) : chat[i].f = f /\ chat[i].sent = status})

\* Messages the running tick has delivered for f (only the tick sends).
DeliveredInTick(f) == {i \in (tick.chat0 + 1)..Len(chat) : chat[i].f = f}

\* The fingerprint whose send the tick is waiting for.
Pending == tick.evs[tick.i]

\* C1: every fingerprint gets at most one announcement, at most one
\* "started" notification and at most one follow-up per chosen snooze.
C1_OneSendPerStep ==
  \A f \in Fingerprints :
    /\ Count(f, "ANNOUNCED") <= 1
    /\ Count(f, "STARTED") <= 1
    /\ Count(f, "SOON") <= chosen[f]

\* C2: a tick that reads a record as CONFIRMED sends nothing for that
\* fingerprint, whatever its start and its next_notify_at.
C2_ConfirmedNeverSends ==
  tick.pc = "send" =>
    \A f \in Fingerprints :
      tick.base[f].state = "CONFIRMED" => Pending # f /\ DeliveredInTick(f) = {}

C2_Witness ==
  /\ tick.pc = "send"
  /\ \E j \in 1..(tick.i - 1) :
       /\ tick.base[tick.evs[j]].state = "CONFIRMED"
       /\ StartOf[tick.evs[j]] <= tick.now

\* C3: once the stored state of a record is CONFIRMED, no step changes it.
C3_ConfirmedAbsorbing ==
  [][\A f \in Fingerprints :
       db[f].state = "CONFIRMED" => db'[f].state = "CONFIRMED"]_vars

\* C4: no step of the poll tick changes a stored record that is CONFIRMED.
C4_PollKeepsConfirmed ==
  [][tick' # tick =>
       \A f \in Fingerprints : db[f].state = "CONFIRMED" => db'[f] = db[f]]_vars

\* The tick ends in this step: by its commit, or by the exception of a send.
TickEnds == tick.pc = "send" /\ tick'.pc = "idle"

\* Messages the tick has delivered for f once this step is over.
DeliveredBy(f) == {i \in (tick.chat0 + 1)..Len(chat') : chat'[i].f = f}

C5_DuringTick ==
  tick.pc = "send" =>
    \A j \in 1..tick.i :
      LET f == tick.evs[j] IN
        (StartOf[f] <= tick.now /\ tick.base[f].state \notin {"CONFIRMED", "STARTED"})
        => /\ tick.sess[f].state = "STARTED"
           /\ IF Pending = f
              THEN tick.pend = "started" /\ DeliveredInTick(f) = {}
              ELSE /\ Cardinality(DeliveredInTick(f)) = 1
                   /\ \A i \in DeliveredInTick(f) :
                        /\ chat[i].sent = "STARTED"
                        /\ ~chat[i].btn
                        /\ chat[i].ctl = NoKeyboard

C5_OnEnd ==
  TickEnds =>
    \A f \in Fingerprints :
      (/\ StartOf[f] <= tick.now
       /\ tick.base[f].state \notin {"unloaded", "CONFIRMED", "STARTED"}
       /\ DeliveredBy(f) # {})
      => db'[f].state = "STARTED"

\* C5: in a tick, an event with start <= now whose record was read as
\* neither CONFIRMED nor STARTED (or was created in the tick) gets one send,
\* with the "started" header and no keyboard, and no other send, and the
\* record of an event that got its send is stored as STARTED when the tick
\* is over.
C5_StartedOnce == []C5_DuringTick /\ [][C5_OnEnd]_vars

\* C6: the stored state enters STARTED at most once per record, and from
\* STARTED it can only go to CONFIRMED.
C6_StartedTerminal ==
  [][\A f \in Fingerprints :
       /\ db[f].state = "STARTED" => db'[f].state \in {"STARTED", "CONFIRMED"}
       /\ (f \in started /\ db[f].state # "STARTED") => db'[f].state # "STARTED"]_vars

C7_DuringTick ==
  tick.pc = "send" =>
    \A j \in 1..tick.i :
      LET f == tick.evs[j] IN
        (tick.base[f] = Absent /\ StartOf[f] > tick.now)
        => IF Pending = f
           THEN /\ tick.pend = "announce"
                /\ DeliveredInTick(f) = {}
                /\ tick.sess[f].state = "ANNOUNCED"
           ELSE /\ Cardinality(DeliveredInTick(f)) = 1
                /\ \A i \in DeliveredInTick(f) :
                     /\ chat[i].sent = "ANNOUNCED"
                     /\ chat[i].ctl = DefaultKeyboard
                     /\ tick.sess[f] = SeenEvent("ANNOUNCED", i, Null)

C7_OnDelivery ==
  (tick.pc = "send" /\ tick.pend = "announce" /\ Len(chat') > Len(chat))
  => LET f == Pending
         mid == Len(chat')
     IN /\ chat'[mid].f = f
        /\ chat'[mid].sent = "ANNOUNCED"
        /\ chat'[mid].ctl = DefaultKeyboard
        /\ timers'[f] = timers[f] + 1
        /\ \A g \in Fingerprints \ {f} : timers'[g] = timers[g]
        /\ tick'.pc = "send" => tick'.sess[f] = SeenEvent("ANNOUNCED", mid, Null)
        /\ tick'.pc = "idle" => db'[f] = SeenEvent("ANNOUNCED", mid, Null)

C7_OnEnd ==
  TickEnds =>
    \A f \in Fingerprints :
      (tick.base[f] = Absent /\ StartOf[f] > tick.now /\ DeliveredBy(f) # {})
      => \E i \in DeliveredBy(f) : db'[f] = SeenEvent("ANNOUNCED", i, Null)

\* C7: the tick that finds no record for an event with start > now sends one
\* announcement with the two-button keyboard, leaves the record ANNOUNCED
\* with the handle of that message and arms one auto-start job.
C7_Announce == []C7_DuringTick /\ [][C7_OnDelivery /\ C7_OnEnd]_vars

Due(rec, nw) == rec.next_notify_at # Null /\ nw >= rec.next_notify_at

C8_DuringTick ==
  tick.pc = "send" =>
    \A j \in 1..tick.i :
      LET f == tick.evs[j] IN
        (tick.base[f].state = "WAITING" /\ StartOf[f] > tick.now)
        => IF ~Due(tick.base[f], tick.now)
           THEN Pending # f /\ DeliveredInTick(f) = {} /\ tick.sess[f] = tick.base[f]
           ELSE IF Pending = f
           THEN /\ tick.pend = "followup"
                /\ DeliveredInTick(f) = {}
                /\ tick.sess[f] = tick.base[f]
           ELSE /\ Cardinality(DeliveredInTick(f)) = 1
                /\ \A i \in DeliveredInTick(f) :
                     /\ chat[i].sent = "SOON"
                     /\ chat[i].btn
                     /\ tick.sess[f] = SeenEvent("WAITING", i, Null)

C8_OnDelivery ==
  (tick.pc = "send" /\ tick.pend = "followup" /\ Len(chat') > Len(chat))
  => LET f == Pending
         mid == Len(chat')
     IN /\ chat'[mid].f = f
        /\ chat'[mid].sent = "SOON"
        /\ chat'[mid].ctl = DefaultKeyboard
        /\ timers' = timers
        /\ tick'.pc = "send" => tick'.sess[f] = SeenEvent("WAITING", mid, Null)
        /\ (tick'.pc = "idle" /\ db[f] # Absent)
           => db'[f] = SeenEvent(db[f].state, mid, Null)

C8_OnEnd ==
  TickEnds =>
    \A f \in Fingerprints :
      (/\ tick.base[f].state = "WAITING"
       /\ StartOf[f] > tick.now
       /\ DeliveredBy(f) # {})
      => \E i \in DeliveredBy(f) : db'[f] = SeenEvent(db[f].state, i, Null)

\* C8: in a tick, a WAITING record with start > now gets one follow-up with
\* the two-button keyboard when next_notify_at is set and due, after which
\* next_notify_at is null and the state still WAITING; otherwise it gets
\* nothing and is left as it was read.
C8_FollowUp == []C8_DuringTick /\ [][C8_OnDelivery /\ C8_OnEnd]_vars

\* C9: choose-delay with offset m on an existing record stores
\* next_notify_at = start - m and state WAITING, and the message it came
\* from has no keyboard once the sink has taken the edit.
C9_ChooseDelay ==
  [][\A cb \in inflight, again \in BOOLEAN, r \in NetOutcomes :
       (NotifySetCallback(cb, again, r) /\ db[cb.f] # Absent)
       => /\ db'[cb.f].state = "WAITING"
          /\ db'[cb.f].next_notify_at = StartOf[cb.f] - cb.m
          /\ db'[cb.f].message_id = db[cb.f].message_id
          /\ r = "ok" => chat'[cb.mid].ctl = NoKeyboard]_vars

C9_Witness ==
  \E f \in Fingerprints :
    /\ db[f] = SeenEvent("WAITING", 1, StartOf[f] - 5)
    /\ chat[1].f = f
    /\ chat[1].ctl = NoKeyboard
    /\ chosen[f] = 1
    /\ inflight = {}

\* C10: a choose-delay callback delivered a second time leaves the stored
\* records as they are.
C10_ReplayIdempotent ==
  [][\A cb \in inflight, again \in BOOLEAN, r \in NetOutcomes :
       (cb.seen /\ NotifySetCallback(cb, again, r)) => db' = db]_vars

\* C11: a second acknowledge of a record already stored as CONFIRMED goes
\* through without raising when the network is up, delivers no new message
\* and leaves the stored state CONFIRMED.
C11_AckTwice ==
  [][\A r \in NetOutcomes :
       (/\ ConfirmFinish(r)
        /\ r = "ok"
        /\ ack.rec.state = "CONFIRMED"
        /\ db[ack.f].state = "CONFIRMED")
       => /\ ConfirmOutcome(chat[ack.mid], r) = "ok"
          /\ Len(chat') = Len(chat)
          /\ db'[ack.f].state = "CONFIRMED"]_vars

\* C13: when the restore job of a menu fires and the menu is still on the
\* message (no delay chosen, no acknowledge), with the record ANNOUNCED or
\* WAITING, the message carries the two original buttons again.
C13_MenuReverts ==
  [][\A t \in restores :
       (/\ RestoreFire(t)
        /\ chat[t.mid].ctl.kind = "menu"
        /\ db[t.f].state \in {"ANNOUNCED", "WAITING"})
       => chat'[t.mid].ctl = DefaultKeyboard]_vars

\* C14: a callback (request reminder, choose delay, acknowledge) for a
\* fingerprint that has no stored record changes no record, no message and no
\* job, and starts no edit.
C14_NoRecordNoOp ==
  [][\A cb \in inflight, again \in BOOLEAN, r \in NetOutcomes :
       (/\ db[cb.f] = Absent
        /\ \/ NotifyCallback(cb, again, r)
           \/ NotifySetCallback(cb, again, r)
           \/ ConfirmStart(cb, again))
       => UNCHANGED <<db, chat, timers, restores, auto, ack, tick>>]_vars

C14_Witness ==
  /\ ack.pc = "idle"
  /\ \E cb \in inflight :
       /\ cb.seen
       /\ db[cb.f] = Absent
       /\ chat[cb.mid].f = cb.f
       /\ chat[cb.mid].ctl = DefaultKeyboard

\* The record of f as a tick starting now would hold it.
Fresh(f) == IF db[f] = Absent THEN SeenEvent("NEW", 0, Null) ELSE db[f]

C16_FailureIsolated ==
  [][(tick.pc = "send" /\ tick'.pc = "idle" /\ chat' = chat)
     => /\ RunLoop(tick, tick.i + 1).pc # "send"
        /\ \A g \in Fingerprints :
             DeliveredInTick(g) # {} => db'[g].message_id \in DeliveredInTick(g)]_vars

\* C18: when the auto-start job of an announced fingerprint fires and the
\* record is not stored as CONFIRMED, the job goes on to its edits unless the
\* record is STARTED already, and once the edits are through the record is
\* stored as STARTED.
C18_TimerForcesStart ==
  [][\A f \in Fingerprints :
       /\ (/\ TimerStart(f)
           /\ Count(f, "ANNOUNCED") > 0
           /\ db[f].state # "CONFIRMED")
          => (db[f].state = "STARTED" \/ auto'[f].pc = "edit")
       /\ TimerFinish(f, "ok") => db'[f].state = "STARTED"]_vars

\* C19: an auto-start job that finds no record or a record CONFIRMED or
\* STARTED, and a restore job that finds no record or a record that is not
\* ANNOUNCED, edit no message and change no stored record.
C19_TimersRecheck ==
  [][/\ \A f \in Fingerprints :
          (TimerStart(f) /\ db[f].state \in {"absent", "CONFIRMED", "STARTED"})
          => /\ auto'[f].pc = "idle"
             /\ UNCHANGED <<db, chat>>
     /\ \A t \in restores :
          (RestoreFire(t) /\ db[t.f].state # "ANNOUNCED")
          => UNCHANGED <<db, chat>>]_vars

\* The job of f1 has fired on a record the poll had already moved to STARTED,
\* and the announcement is as it was.
C19_Witness ==
  /\ db["f1"].state = "STARTED"
  /\ Count("f1", "ANNOUNCED") = 1
  /\ timers["f1"] = 0
  /\ auto["f1"].pc = "idle"
  /\ chat[1].f = "f1"
  /\ chat[1].text = "ANNOUNCED"
  /\ chat[1].ctl = DefaultKeyboard

\* C20: when the tick or the auto-start job commits a new state for a
\* record, the state it decided on is the one the record has in the store at
\* that moment: a choose-delay or an acknowledge committed since the read is
\* not overwritten by a state derived from the overtaken read.
C20_NoStaleWrite ==
  [][\A f \in Fingerprints :
       (db'[f].state # db[f].state /\ db[f] # Absent)
       => /\ (tick.pc = "send" /\ tick'.pc = "idle")
             => tick.base[f].state = db[f].state
          /\ auto'[f] # auto[f] => auto[f].rec.state = db[f].state]_vars

\* The reminder points to offer for f: the configured points that fit in the
\* minutes left, and the zero point unless the start is past.
Offered(f) ==
  {m \in NOTIFY_INTERVALS : m # 0 /\ m <= StartOf[f] - now}
    \cup (IF StartOf[f] < now THEN {} ELSE {0})

\* C12: request-reminder on the two-button keyboard of a tracked event puts
\* up the menu of exactly the points to offer; when there is none (the start
\* is past) it leaves the keyboard as it is and arms no restore job.
C12_MenuPoints ==
  [][\A cb \in inflight, again \in BOOLEAN :
       (/\ NotifyCallback(cb, again, "ok")
        /\ db[cb.f] # Absent
        /\ chat[cb.mid].ctl = DefaultKeyboard)
       => IF Offered(cb.f) = {}
          THEN chat' = chat /\ restores' = restores
          ELSE /\ chat'[cb.mid].ctl = MenuKeyboard(Offered(cb.f))
               /\ restores' = restores \cup {[f |-> cb.f, mid |-> cb.mid]}]_vars

\* A tick that is sending the notice has read no event and no record.
C17_DuringNotice ==
  tick.pc = "notice"
  => /\ tick.evs = <<>>
     /\ tick.new = {}
     /\ \A f \in Fingerprints : tick.sess[f] = Unloaded
     /\ Len(chat) = tick.chat0

C17_OnStep ==
  /\ (tick.pc = "idle" /\ tick'.pc = "notice")
     => UNCHANGED <<db, chat, timers, auto, restores>>
  /\ (tick.pc = "notice" /\ tick' # tick)
     => /\ tick' = IdleTick
        /\ UNCHANGED <<db, timers, auto, restores>>
        /\ chat' = chat \/ chat' = Append(chat, Notice)
        /\ \A r \in NetOutcomes :
             (NoticeDone(r) /\ r = "ok") => chat' = Append(chat, Notice)
  /\ TickFetchRaises => UNCHANGED <<db, chat, tick, timers, auto, restores>>

\* C17: a tick whose fetch raises NEED_REAUTH sends the one notice and
\* nothing else: it reads no event, touches no record and arms no job, and
\* ends so that the next run of the job fetches again; a fetch that raises
\* anything else sends nothing.
C17_ReauthNotice == []C17_DuringNotice /\ [][C17_OnStep]_vars

\* The notice is in the chat, nothing is tracked and the clock has moved on
\* to the next run.
C17_Witness ==
  /\ Len(chat) > 0
  /\ chat[1] = Notice
  /\ tick.pc = "idle"
  /\ ~ticked
  /\ now > 0
  /\ db["f1"] = Absent
  /\ timers["f1"] = 0

\* A run of the job in progress keeps the clock reading and the event list it
\* began with until it ends.
C21_RunGoesOn ==
  tick.pc # "idle"
  => \/ tick'.pc = "idle"
     \/ /\ tick'.now = tick.now
        /\ tick'.evs = tick.evs
        /\ tick'.chat0 = tick.chat0
        /\ tick'.i >= tick.i

C22_DuringTick ==
  tick.pc = "send" =>
    \A j \in 1..tick.i :
      LET f == tick.evs[j] IN
        /\ tick.sess[f].state \notin {"unloaded", "absent", "NEW"}
        /\ IF db[f] = Absent
           THEN f \in tick.new /\ tick.base[f] = Absent
           ELSE f \notin tick.new /\ tick.base[f].state \in EventState \ {"NEW"}
        /\ Cardinality(DeliveredInTick(f)) <= 1
        /\ Pending = f => DeliveredInTick(f) = {}

C22_OnStep ==
  \A f \in Fingerprints :
    db[f] # Absent
    => /\ db'[f] # Absent
       /\ db'[f].state # "NEW"
       /\ tick'.pc = "send" => f \notin tick'.new

\* C22: polling again never adds a second record for a fingerprint and never
\* starts a record over: a tick holds a tracked fingerprint as the stored
\* record (also at its second appearance in the event list) and adds a record
\* only for a fingerprint that has none, no stored record is NEW or is
\* replaced by a new one, and a fingerprint without a record is tracked as
\* new whatever is stored for the other fingerprint.
C22_NoDuplicateRecord ==
  /\ [](C22_DuringTick /\ \A f \in Fingerprints : db[f].state # "NEW")
  /\ [][C22_OnStep]_vars

\* A tick has gone past an event whose record it found in the store and is
\* sending for the next event of its list.
C22_Witness ==
  /\ tick.pc = "send"
  /\ tick.i = 2
  /\ db[tick.evs[1]] # Absent
  /\ tick.base[tick.evs[1]] = db[tick.evs[1]]
  /\ tick.evs[1] \notin tick.new

\* C23: the weekly sweep purges the records past the retention horizon: no
\* record is left in the store once its start is more than two weeks past
\* (the horizon and one period of the sweep), and a record is deleted only
\* when its start is more than one week past.
C23_SweepPurges ==
  /\ [](\A f \in Fingerprints : db[f] # Absent => now - StartOf[f] <= 2 * Week)
  /\ [][\A f \in Fingerprints :
          (db[f] # Absent /\ db'[f] = Absent) => StartOf[f] < now - Week]_vars

Latest(f) ==
  LET own == {i \in 1..Len(chat) : chat[i].f = f}
  IN IF own = {} THEN 0 ELSE CHOOSE i \in own : \A j \in own : j <= i

\* C25: the handle of every delivered notification is written back: a
\* stored record holds the handle of the last message delivered for its
\* fingerprint whenever no tick is between a send for it and its commit,
\* and in between the record the tick holds does.
C25_HandleWrittenBack ==
  \A f \in Fingerprints :
    /\ (db[f] # Absent /\ (tick.pc = "idle" \/ DeliveredInTick(f) = {}))
       => db[f].message_id = Latest(f)
    /\ (tick.pc = "send" /\ DeliveredInTick(f) # {})
       => tick.sess[f].message_id = Latest(f)

C26_OnStep ==
  /\ (tick.pc = "send" /\ tick'.pc = "send" /\ tick' # tick)
     => UNCHANGED <<db, started>>
  /\ (tick.pc = "send" /\ tick'.pc = "idle" /\ chat' = chat)
     => UNCHANGED <<db, started, timers>>
  /\ (tick.pc = "send" /\ tick'.pc = "idle" /\ chat' # chat)
     => \A f \in Fingerprints :
          DeliveredBy(f) # {} => /\ db'[f].message_id \in DeliveredBy(f)
                                 /\ tick.sess[f].state # tick.base[f].state
                                    => db'[f].state = tick.sess[f].state

\* C26: a tick stores its changes together or not at all: it writes nothing
\* to the store while sends are still to come; when a send raises, the store
\* and the armed auto-start jobs are what they were, also for the events
\* whose messages the tick has delivered; when the last send is through,
\* the handle and the new state of every event served in the tick are
\* stored in that one step.
C26_AllOrNothing == [][C26_OnStep]_vars

\* The announcement of f1 is in the chat and its auto-start job is armed, the
\* send for f2 has raised, and nothing of the tick is stored.
C26_Witness ==
  /\ tick.pc = "idle"
  /\ Len(chat) = 1
  /\ chat[1].f = "f1"
  /\ chat[1].sent = "ANNOUNCED"
  /\ timers["f1"] = 1
  /\ db["f1"] = Absent
  /\ db["f2"] = Absent
  /\ now = 0

\* The auto-start job has stored STARTED for f and no tick has delivered a
\* "started" message for it (a tick stores STARTED only with its message).
ByTimer(f) == f \in started /\ Count(f, "STARTED") = 0

\* The tick reads the record of f in this step and goes on to send "started".
ReadsToStart(f) ==
  /\ tick' # tick
  /\ tick'.pc = "send"
  /\ tick'.evs[tick'.i] = f
  /\ tick'.pend = "started"

C27_OnStep ==
  \A f \in Fingerprints :
    /\ \A r \in NetOutcomes :
         TimerFinish(f, r)
         => /\ Len(chat') = Len(chat)
            /\ db'[f].state # db[f].state
               => /\ db'[f].state = "STARTED"
                  /\ chat'[auto[f].rec.message_id].text = "SOON"
                  /\ chat'[auto[f].rec.message_id].ctl = NoKeyboard
    /\ ByTimer(f) => ~ReadsToStart(f)

\* C27: the auto-start job delivers no message: when it stores STARTED the
\* message of the record carries the SOON header and no keyboard; a tick
\* that reads the record after the job has stored STARTED sends no "started"
\* notification; and with the job and a tick both at work at the start
\* instant, at most one "started" message is delivered for the fingerprint.
C27_TimerEditsOnly ==
  /\ [](\A f \in Fingerprints : timers[f] + Count(f, "ANNOUNCED") > 0
                                   => Count(f, "STARTED") <= 1)
  /\ [][C27_OnStep]_vars

C28_OnStep ==
  /\ \A cb \in inflight, again \in BOOLEAN : ConfirmStart(cb, again) => db' = db
  /\ \A r \in NetOutcomes :
       ConfirmFinish(r)
       => IF chat'[ack.mid].text = "CONFIRMED" /\ chat'[ack.mid].ctl = NoKeyboard
             /\ chat[ack.mid].ctl # NoKeyboard /\ chat[ack.mid].text # "CONFIRMED"
          THEN /\ \A g \in Fingerprints \ {ack.f} : db'[g] = db[g]
               /\ db'[ack.f] = db[ack.f] \/ db'[ack.f] = [db[ack.f] EXCEPT !.state = "CONFIRMED"]
               /\ ack.rec.state # "CONFIRMED" => db'[ack.f].state = "CONFIRMED"
          ELSE db' = db
  /\ \A cb \in inflight, again \in BOOLEAN, r \in NetOutcomes :
       (NotifySetCallback(cb, again, r) /\ db[cb.f] # Absent)
       => /\ db'[cb.f].state = "WAITING"
          /\ db'[cb.f].next_notify_at = SnoozeAt(cb.f, cb.m)
          /\ r # "ok" => chat' = chat

\* C28: acknowledge stores CONFIRMED only when both of its edits went
\* through (the message then has the CONFIRMED text and no keyboard); when
\* the text edit or the keyboard edit is refused or fails, the store is left
\* as it was, also when the text edit had gone through; choose-delay stores
\* WAITING and next_notify_at whether or not its edit goes through.
C28_AckAfterEdits == [][C28_OnStep]_vars

\* The text edit of an acknowledge went through and its keyboard edit was
\* refused (the auto-start job had taken the keyboard off): the message says
\* CONFIRMED and the record is the STARTED the job stored.
C28_Witness ==
  /\ ack.pc = "idle"
  /\ Len(chat) > 0
  /\ chat[1].f = "f1"
  /\ chat[1].text = "CONFIRMED"
  /\ chat[1].ctl = NoKeyboard
  /\ db["f1"] = SeenEvent("STARTED", 1, Null)
  /\ Count("f1", "STARTED") = 0
  /\ chosen["f1"] = 0

\* C29: a record snoozed to the start itself (offset 0, next_notify_at =
\* start) gets no follow-up: a tick that reads it sends for it the "started"
\* notification, without keyboard, or nothing, and nothing when it reads
\* it as STARTED (the auto-start job has been there).
C29_SnoozeToStart ==
  tick.pc = "send" =>
    \A j \in 1..tick.i :
      LET f == tick.evs[j] IN
        tick.base[f].next_notify_at = StartOf[f]
        => /\ Pending = f => tick.pend = "started"
           /\ \A i \in DeliveredInTick(f) :
                chat[i].sent = "STARTED" /\ ~chat[i].btn
           /\ tick.base[f].state = "STARTED"
              => Pending # f /\ DeliveredInTick(f) = {}

\* f1 was snoozed to its start, and the tick of the start has delivered the
\* "started" notification and no follow-up.
C29_Witness ==
  /\ tick.pc = "idle"
  /\ db["f1"].state = "STARTED"
  /\ db["f1"].next_notify_at = StartOf["f1"]
  /\ chosen["f1"] = 1
  /\ Count("f1", "STARTED") = 1
  /\ Count("f1", "SOON") = 0

\* C30: every message in the chat that shows a keyboard for a fingerprint
\* has a stored record of that fingerprint behind it.
C30_ControlsHaveRecord ==
  \A i \in 1..Len(chat) :
    chat[i].ctl # NoKeyboard => db[chat[i].f] # Absent

====
